---------------------------- MODULE Spec2Model ----------------------------
(***************************************************************************)
(* httpgate: an HTTP gateway that routes a request to a devbox pod from    *)
(* the Host header <uniqueID>-<port>.<domain>[:client-port].               *)
(*                                                                         *)
(*   src/src/proxy.rs     parse_host, resolve_backend, request_filter,     *)
(*                        upstream_peer                                    *)
(*   src/src/registry.rs  DevboxRegistry over a DashMap (sharded map)      *)
(*   src/src/watcher.rs   DevboxWatcher: run, handle_event                 *)
(*   src/src/main.rs      the watcher restart loop                         *)
(*                                                                         *)
(* Six specifications share the definitions below:                         *)
(*   SpecParse     parse_host applied to bounded Host header values, and a *)
(*                 request with that header entering request_filter        *)
(*   SpecRegistry  registry operations issued by concurrent callers        *)
(*   SpecReset     one caller's clear() raced by another caller's registers *)
(*   Spec          the gateway: watcher, address feed, request handlers    *)
(*   SpecSync      the watcher task and the address feed, with the events  *)
(*                 handled traced; SpecSyncFair adds the timer's fairness  *)
(***************************************************************************)
EXTENDS Integers, Sequences, FiniteSets, TLC

VARIABLES
    \* ---- SpecParse: one call of parse_host
    p_host,      \* the Host header value handed to parse_host
    p_kind,      \* how the value was built: "built" (id-port.domain[:sfx]),
                 \* "numeral" (the port as written) or "raw"
    p_id,        \* built: the identifier it was built from
    p_port,      \* built: the port it was built from
    p_pc,        \* "input" | "parsed"
    p_result,    \* the Option<(String, u16)> parse_host returned
    \* ---- the registry (SpecRegistry and Spec)
    inner,       \* DevboxRegistry.inner: the DashMap's entries [key, value]
    shard_of,    \* the shard the DashMap's hasher sends each key to
    \* ---- SpecRegistry: callers of the registry API
    t_clear,     \* per caller: shards its running clear() has emptied (0: no clear running)
    last,        \* the call (or the call's last step) that acted last, with what it returned
    tick,        \* flips at every step of a call
    abs,         \* per identifier: the record and caller of its latest register, None once removed or reset
    c_ups,       \* per caller: the identifiers registered while its clear() runs
    \* ---- SpecReset: one caller's clear() raced by another caller's registers
    r_pos,       \* shards the running clear() has emptied (0: no clear running)
    r_regs,      \* the registers completed since the clear() began, in order
    \* ---- Spec: the gateway
    pod_ips,     \* the registry's second map: (namespace, devbox_name) -> pod IP
    w_pc,        \* the watcher task: "run" | "streaming" | "sleep"
    w_stream,    \* the watch stream: "empty" | "listing" | "watching"
    w_clear,     \* shards emptied by the clear() of the Init being handled (0: none)
    req,         \* per request: where its handler is, and what it has computed
    \* ---- SpecSync: what the watcher task has done (left untraced in Spec)
    w_last,      \* the step the watcher task took last: its event and Devbox
    w_abs,       \* per identifier: the record the events handled so far call for
    w_out        \* a failure has been met and no Init has been handled since

parseVars == <<p_host, p_kind, p_id, p_port, p_pc, p_result>>
mapVars == <<inner, shard_of>>
callerVars == <<t_clear, last, tick, abs, c_ups>>
resetVars == <<r_pos, r_regs>>

syncVars == <<w_last, w_abs, w_out>>
gateVars == <<pod_ips, w_pc, w_stream, w_clear, req, syncVars>>

vars == <<parseVars, mapVars, callerVars, resetVars, gateVars>>

\* Option<T>
None == <<"None">>
Some(v) == <<"Some", v>>

-----------------------------------------------------------------------------
(* Characters.  A string is a sequence of one-character strings.           *)

Lower == {"a","b","c","d","e","f","g","h","i","j","k","l","m",
          "n","o","p","q","r","s","t","u","v","w","x","y","z"}

AsciiDigits == {"0","1","2","3","4","5","6","7","8","9"}

\* The regex crate's \d is Unicode-aware: it also matches decimal digits
\* outside ASCII.  ARABIC-INDIC DIGIT THREE stands for them.
UnicodeDigits == {"U+0663"}

\* \d
IsRegexDigit(c) == c \in AsciiDigits \cup UnicodeDigits

\* [a-z\d]
IsAlnum(c) == c \in Lower \/ IsRegexDigit(c)

\* [-a-z\d]
IsIdChar(c) == c = "-" \/ IsAlnum(c)

DigitVal(c) ==
    CASE c = "0" -> 0 [] c = "1" -> 1 [] c = "2" -> 2 [] c = "3" -> 3
      [] c = "4" -> 4 [] c = "5" -> 5 [] c = "6" -> 6 [] c = "7" -> 7
      [] c = "8" -> 8 [] c = "9" -> 9

DigitChar(d) ==
    CASE d = 0 -> "0" [] d = 1 -> "1" [] d = 2 -> "2" [] d = 3 -> "3"
      [] d = 4 -> "4" [] d = 5 -> "5" [] d = 6 -> "6" [] d = 7 -> "7"
      [] d = 8 -> "8" [] d = 9 -> "9"

\* u16::MAX
U16Max == 65535

-----------------------------------------------------------------------------
(* proxy.rs: parse_host                                                    *)

\* host.split(':').next(): the text before the first ':' (all of it when
\* there is none).  split always yields a first piece, so unwrap_or(host)
\* is never taken.
host_without_port(host) ==
    LET colons == {i \in 1..Len(host) : host[i] = ":"}
    IN  IF colons = {} THEN host
        ELSE SubSeq(host, 1,
                    (CHOOSE i \in colons : \A j \in colons : i <= j) - 1)

\* mutant: the identifier must start with a letter, as a DNS label of
\* RFC 1035 does
MatchesUniqueId_LetterFirst(s) ==
    /\ Len(s) >= 1
    /\ s[1] \in Lower
    /\ IsAlnum(s[Len(s)])
    /\ \A i \in 1..Len(s) : IsIdChar(s[i])

\* mutant: the last character of the identifier may be a hyphen
MatchesUniqueId_AnyEnd(s) ==
    /\ Len(s) >= 1
    /\ IsAlnum(s[1])
    /\ \A i \in 1..Len(s) : IsIdChar(s[i])

\* [a-z\d](?:[-a-z\d]*[a-z\d])? matched against all of s
MatchesUniqueId(s) ==
    /\ Len(s) >= 1
    /\ IsAlnum(s[1])
    /\ IsAlnum(s[Len(s)])
    /\ \A i \in 1..Len(s) : IsIdChar(s[i])

\* The ways ^([a-z\d](?:[-a-z\d]*[a-z\d])?)-(\d+)\. matches a prefix of s:
\* <<n, m>> where group 1 is s[1..n], s[n+1] is the hyphen, group 2 is
\* s[n+2..m] and s[m+1] is the dot.
HostRegexMatches(s) ==
    {nm \in (1..Len(s)) \X (1..Len(s)) :
        LET n == nm[1]
            m == nm[2]
        IN  /\ n + 2 <= m
            /\ m + 1 <= Len(s)
            /\ MatchesUniqueId(SubSeq(s, 1, n))
            /\ s[n + 1] = "-"
            /\ \A i \in (n + 2)..m : IsRegexDigit(s[i])
            /\ s[m + 1] = "."}

\* HOST_REGEX.captures: both repetitions are greedy, so the engine prefers
\* the longest group 1 and then the longest group 2.  None when no match.
HOST_REGEX_captures(s) ==
    LET ms == HostRegexMatches(s)
    IN  IF ms = {} THEN None
        ELSE LET best == CHOOSE a \in ms :
                            \A b \in ms : \/ a[1] > b[1]
                                          \/ (a[1] = b[1] /\ a[2] >= b[2])
             IN  Some([unique_id |-> SubSeq(s, 1, best[1]),
                       port      |-> SubSeq(s, best[1] + 2, best[2])])

RECURSIVE DecValue(_)
\* the decimal value of a run of ASCII digits
DecValue(ds) ==
    IF ds = <<>> THEN 0
    ELSE 10 * DecValue(SubSeq(ds, 1, Len(ds) - 1)) + DigitVal(ds[Len(ds)])

\* mutant: the value is truncated to 16 bits, as `as u16` does
parse_u16_Wraps(ds) ==
    IF /\ ds # <<>>
       /\ \A i \in 1..Len(ds) : ds[i] \in AsciiDigits
    THEN Some(DecValue(ds) % (U16Max + 1))
    ELSE None

\* str::parse::<u16>: ASCII digits only, and an Err on a value past
\* u16::MAX (checked arithmetic, no wrapping).
parse_u16(ds) ==
    IF /\ ds # <<>>
       /\ \A i \in 1..Len(ds) : ds[i] \in AsciiDigits
       /\ DecValue(ds) <= U16Max
    THEN Some(DecValue(ds))
    ELSE None

parse_host(host) ==
    LET caps == HOST_REGEX_captures(host_without_port(host))
    IN  IF caps = None THEN None
        ELSE LET port == parse_u16(caps[2].port)
             IN  IF port = None THEN None
                 ELSE Some(<<caps[2].unique_id, port[2]>>)

-----------------------------------------------------------------------------
(* Formatting, for building Host header values.                            *)

RECURSIVE ToDecimal(_)
\* the decimal numeral of n, as format!("{}", n) writes it
ToDecimal(n) ==
    IF n < 10 THEN <<DigitChar(n)>>
    ELSE Append(ToDecimal(n \div 10), DigitChar(n % 10))

\* every string over alphabet A of length at most n
StringsUpTo(A, n) == UNION {[1..k -> A] : k \in 0..n}

-----------------------------------------------------------------------------
(* SpecParse: the inputs.                                                  *)

\* longest identifier built
MaxIdLen == 3
\* longest raw Host header value
MaxRawLen == 5
\* ports 0..PortLow and U16Max-PortHigh..U16Max are all tried
PortLow == 11
PortHigh == 2

IdAlphabet == {"a", "1", "-"}
RawAlphabet == {"a", "1", "-", ".", ":", "U+0663"}

\* the identifiers of the grammar [a-z0-9]([-a-z0-9]*[a-z0-9])?
ValidIds ==
    {s \in StringsUpTo(IdAlphabet, MaxIdLen) :
        /\ Len(s) >= 1
        /\ s[1] # "-"
        /\ s[Len(s)] # "-"}

PortSamples ==
    (0..PortLow) \cup ((U16Max - PortHigh)..U16Max)
        \cup {80, 100, 443, 3000, 8080, 10000}

\* port numerals a u16 cannot hold: the values right above u16::MAX, values
\* that truncate to common ports (65536 + 80, 2 * 65536 + 8080), longer ones
PortsTooLarge ==
    ((U16Max + 1)..(U16Max + 1 + PortHigh))
        \cup {65616, 99999, 100000, 139152, 999999999}

\* the numerals written in place of the port: too large ones, and numerals
\* with leading zeros
PortNumerals ==
    {ToDecimal(n) : n \in PortsTooLarge}
        \cup {<<"0", "0", "0", "8", "0">>, <<"0", "6", "5", "5", "3", "5">>,
              <<"0", "6", "5", "5", "3", "6">>}

Domains == {<<>>, <<"d">>, <<"d", ".", "i", "o">>, <<"1", "-", "2", ".", "a">>}

\* nothing, or a ':' and what a client may write after it
ClientSuffixes == {<<>>, <<":">>, <<":", "4", "4", "3">>, <<":", "a", "-", "1", ".">>}

BuildHost(id, port, domain, suffix) ==
    id \o <<"-">> \o ToDecimal(port) \o <<".">> \o domain \o suffix

\* the same with the port given as written
BuildHostNumeral(id, numeral, domain, suffix) ==
    id \o <<"-">> \o numeral \o <<".">> \o domain \o suffix

-----------------------------------------------------------------------------
(* registry.rs: DevboxRegistry                                             *)

\* how many callers and DashMap shards take part
NumThreads == 2
NumShards == 2

\* the uniqueIDs, namespaces and names of the cluster's devboxes
Ids == {<<"x">>, <<"y", "-", "1">>}
Namespaces == {"ns1", "ns2"}
Names == {"devbox1"}

\* DevboxInfo; devbox_name is the field proxy.rs reads beside namespace
DevboxInfos == [namespace : Namespaces, devbox_name : Names]

Threads == 1..NumThreads
Shards == 0..(NumShards - 1)

\* the entries of map m under key k (the DashMap keeps at most one)
EntriesOf(m, k) == {e \in m : e.key = k}

\* mutant: the new entry is added beside the old one
register_map_KeepOld(m, unique_id, info) ==
    m \cup {[key |-> unique_id, value |-> info]}

\* mutant: the shard is rebuilt from the new entry alone, losing the other
\* entries of the shard
register_map_LoseShard(m, unique_id, info) ==
    {e \in m : shard_of[e.key] # shard_of[unique_id]}
        \cup {[key |-> unique_id, value |-> info]}

\* DashMap::insert under the key's shard lock: the old entry is replaced
register_map(m, unique_id, info) ==
    (m \ EntriesOf(m, unique_id)) \cup {[key |-> unique_id, value |-> info]}

\* .insert(..).is_none(): whether the key was new
register_ret(m, unique_id) == EntriesOf(m, unique_id) = {}

\* mutant: nothing is removed
unregister_map_Noop(m, unique_id) == m

\* mutant: removing an absent key empties the map
unregister_map_AbsentClears(m, unique_id) ==
    IF EntriesOf(m, unique_id) = {} THEN {} ELSE m \ EntriesOf(m, unique_id)

\* mutant: every entry of the key's shard is dropped
unregister_map_WholeShard(m, unique_id) ==
    {e \in m : shard_of[e.key] # shard_of[unique_id]}

\* DashMap::remove under the key's shard lock
unregister_map(m, unique_id) == m \ EntriesOf(m, unique_id)

\* .remove(..).is_some()
unregister_ret(m, unique_id) == EntriesOf(m, unique_id) # {}

\* mutant: the last shard is never emptied
clear_shard_SkipLast(m, s) ==
    {e \in m : shard_of[e.key] # s \/ s = NumShards - 1}

\* DashMap::clear is retain(|_, _| false): it takes the shards' write locks
\* one after the other and empties each.  This is its step on shard s.
clear_shard(m, s) == {e \in m : shard_of[e.key] # s}

\* mutant: the copy is of the namespace alone
get_NamespaceOnly(m, unique_id) ==
    IF EntriesOf(m, unique_id) = {} THEN None
    ELSE Some([namespace |->
                 (CHOOSE e \in EntriesOf(m, unique_id) : TRUE).value.namespace])

\* .get(..).map(|r| r.value().clone()): a copy of the value, taken under
\* the shard's read lock
get(m, unique_id) ==
    IF EntriesOf(m, unique_id) = {} THEN None
    ELSE Some((CHOOSE e \in EntriesOf(m, unique_id) : TRUE).value)

\* len(), with no call running
len(m) == Cardinality(m)

is_empty(m) == len(m) = 0

\* DevboxRegistry::new, and the hasher's choice of shards
MapInit ==
    /\ inner = {}
    /\ shard_of \in [Ids -> Shards]

-----------------------------------------------------------------------------
(* SpecRegistry: callers (threads, as in registry.rs's tests) issue        *)
(* register, unregister, get and clear in any order and interleaving.      *)
(* Each of register, unregister and get holds one shard lock for its whole *)
(* effect and is one step; clear is one step per shard.                    *)

Idle(t) == t_clear[t] = 0

NoCall ==
    [op |-> "none", by |-> 0, id |-> <<>>, info |-> None, ret |-> None,
     removed |-> 0]

\* a register by caller `by` overlaps every other caller's running clear
Overlap(by, unique_id) ==
    c_ups' = [u \in Threads |->
                IF t_clear[u] > 0 /\ u # by THEN c_ups[u] \cup {unique_id}
                ELSE c_ups[u]]

CallerInit ==
    /\ t_clear = [t \in Threads |-> 0]
    /\ last = NoCall
    /\ tick = 0
    /\ abs = [i \in Ids |-> None]
    /\ c_ups = [t \in Threads |-> {}]

CallerIdle ==
    /\ t_clear = <<>>
    /\ last = NoCall
    /\ tick = 0
    /\ abs = <<>>
    /\ c_ups = <<>>

\* caller t: registry.register(unique_id, namespace)
register(t, unique_id, info) ==
    /\ Idle(t)
    /\ inner' = register_map(inner, unique_id, info)
    /\ last' = [op |-> "register", by |-> t, id |-> unique_id,
                info |-> Some(info), ret |-> Some(register_ret(inner, unique_id)),
                removed |-> 0]
    /\ tick' = 1 - tick
    /\ abs' = [abs EXCEPT ![unique_id] = Some([info |-> info, by |-> t])]
    /\ Overlap(t, unique_id)
    /\ UNCHANGED <<shard_of, t_clear, parseVars, resetVars, gateVars>>

\* caller t: registry.unregister(unique_id)
unregister(t, unique_id) ==
    /\ Idle(t)
    /\ inner' = unregister_map(inner, unique_id)
    /\ last' = [op |-> "unregister", by |-> t, id |-> unique_id,
                info |-> None, ret |-> Some(unregister_ret(inner, unique_id)),
                removed |-> 0]
    /\ tick' = 1 - tick
    /\ abs' = [abs EXCEPT ![unique_id] = None]
    /\ UNCHANGED <<shard_of, t_clear, c_ups, parseVars, resetVars, gateVars>>

\* caller t: registry.get(unique_id)
get_call(t, unique_id) ==
    /\ Idle(t)
    /\ last' = [op |-> "get", by |-> t, id |-> unique_id,
                info |-> None, ret |-> get(inner, unique_id),
                removed |-> 0]
    /\ tick' = 1 - tick
    /\ UNCHANGED <<inner, shard_of, t_clear, abs, c_ups, parseVars, resetVars,
                   gateVars>>

\* caller t: registry.clear(), one shard at a time; the call returns with
\* the step on the last shard
clear(t) ==
    LET s == t_clear[t]
        returns == s = NumShards - 1
    IN  /\ inner' = clear_shard(inner, s)
        /\ t_clear' = [t_clear EXCEPT ![t] = IF returns THEN 0 ELSE s + 1]
        /\ last' = [op |-> IF returns THEN "clear" ELSE "clear_step",
                    by |-> t, id |-> <<>>, info |-> None, ret |-> None,
                    removed |-> len(inner) - len(inner')]
        /\ tick' = 1 - tick
        /\ abs' = [i \in Ids |-> IF shard_of[i] = s THEN None ELSE abs[i]]
        /\ c_ups' = [c_ups EXCEPT ![t] = IF returns THEN {} ELSE @]
        /\ UNCHANGED <<shard_of, parseVars, resetVars, gateVars>>

RegistryNext ==
    \E t \in Threads :
        \/ \E i \in Ids, info \in DevboxInfos : register(t, i, info)
        \/ \E i \in Ids : unregister(t, i)
        \/ \E i \in Ids : get_call(t, i)
        \/ clear(t)

-----------------------------------------------------------------------------
(* SpecReset: one caller runs clear() again and again while another caller *)
(* registers, one register after the other.                                *)

\* most registers that complete while one clear() is running
MaxRacing == 3

ResetInit ==
    /\ r_pos = 0
    /\ r_regs = <<>>

ResetIdle ==
    /\ r_pos = 0
    /\ r_regs = <<>>

\* the writer: registry.register(unique_id, namespace)
race_register(unique_id, info) ==
    /\ Len(r_regs) < MaxRacing
    /\ inner' = register_map(inner, unique_id, info)
    /\ r_regs' = IF r_pos > 0 THEN Append(r_regs, <<unique_id, info>>) ELSE r_regs
    /\ UNCHANGED <<shard_of, r_pos, parseVars, callerVars, gateVars>>

\* the resetter: registry.clear(), one shard at a time
race_clear ==
    LET returns == r_pos = NumShards - 1
    IN  /\ inner' = clear_shard(inner, r_pos)
        /\ r_pos' = IF returns THEN 0 ELSE r_pos + 1
        /\ r_regs' = IF returns THEN <<>> ELSE r_regs
        /\ UNCHANGED <<shard_of, parseVars, callerVars, gateVars>>

ResetNext ==
    \/ \E i \in Ids, info \in DevboxInfos : race_register(i, info)
    \/ race_clear

-----------------------------------------------------------------------------
(* The gateway: proxy.rs's request path over the registry, watcher.rs's    *)
(* event handling and main.rs's restart loop.                              *)

\* the request handlers under observation; handlers never write to the
\* registry, so one does not affect another
Requests == {"r1"}

\* pod IPs the cluster hands out
Addrs == {"10.0.0.5", "10.0.0.6"}

\* the runtime-instance events of the feed: each namespace's devbox1 pod has
\* an address of its own
PodEvents ==
    {<<"ns1", "devbox1", "10.0.0.5">>, <<"ns2", "devbox1", "10.0.0.6">>}

\* Host header values of requests: one per identifier, each with a port of
\* its own, the first with a client port, and one that does not parse
RequestHosts ==
    {BuildHost(<<"x">>, 8081, <<"d">>, <<":", "4", "4", "3">>),
     BuildHost(<<"y", "-", "1">>, 8082, <<"d">>, <<>>),
     <<"x", ".", "d">>}

\* the second map's entries under key (namespace, devbox_name)
PodEntriesOf(pods, namespace, devbox_name) ==
    {e \in pods : e.key = <<namespace, devbox_name>>}

\* registry.update_pod_ip(namespace, devbox_name, ip)
update_pod_ip(pods, namespace, devbox_name, ip) ==
    (pods \ PodEntriesOf(pods, namespace, devbox_name))
        \cup {[key |-> <<namespace, devbox_name>>, value |-> ip]}

\* registry.get_pod_ip(namespace, devbox_name)
get_pod_ip(pods, namespace, devbox_name) ==
    IF PodEntriesOf(pods, namespace, devbox_name) = {} THEN None
    ELSE Some((CHOOSE e \in PodEntriesOf(pods, namespace, devbox_name) : TRUE).value)

\* registry.get_devbox(unique_id)
get_devbox(m, unique_id) == get(m, unique_id)

\* BackendResult
NotFound == <<"NotFound">>
NotRunning == <<"NotRunning">>
Ok(ip, port) == <<"Ok", ip, port>>

\* mutant: a registered devbox with no pod IP is reported as not found
resolve_pod_ip_NotFound(pods, info, port) ==
    LET pod_ip == get_pod_ip(pods, info.namespace, info.devbox_name)
    IN  IF pod_ip = None THEN NotFound ELSE Ok(pod_ip[2], port)

\* resolve_backend, step 2: the pod IP of the devbox found by step 1
resolve_pod_ip(pods, info, port) ==
    LET pod_ip == get_pod_ip(pods, info.namespace, info.devbox_name)
    IN  IF pod_ip = None THEN NotRunning ELSE Ok(pod_ip[2], port)

\* resolve_backend with nothing running between its two lookups
resolve_backend(m, pods, unique_id, port) ==
    LET info == get_devbox(m, unique_id)
    IN  IF info = None THEN NotFound
        ELSE resolve_pod_ip(pods, info[2], port)

\* mutant: both misses are answered 404
response_status_Always404(backend) ==
    IF backend = NotFound THEN Some(404)
    ELSE IF backend = NotRunning THEN Some(404)
    ELSE None

\* request_filter's match on the BackendResult: the status it answers with
\* (send_not_found, send_service_unavailable), None when it goes on
response_status(backend) ==
    IF backend = NotFound THEN Some(404)
    ELSE IF backend = NotRunning THEN Some(503)
    ELSE None

\* new_ctx, and a handler that has not started
NewRequest ==
    [pc |-> "new", host |-> <<>>, parsed |-> None, info |-> None,
     backend |-> None, status |-> None, ctx |-> None, ret |-> None,
     peer |-> None, seen |-> {}, quiet |-> FALSE]

InFlight(q) == q.pc = "lookup"

\* What a write that leaves the registry as (m, pods) means to a request
\* between its two lookups: its call has overlapped one more registry
\* state (seen: what resolve_backend gives on each of them), and it is no
\* longer alone with the registry (quiet).
Written(m, pods) ==
    req' = [r \in DOMAIN req |->
              IF InFlight(req[r])
              THEN [req[r] EXCEPT
                      !.quiet = FALSE,
                      !.seen = @ \cup {resolve_backend(m, pods, req[r].parsed[2][1],
                                                       req[r].parsed[2][2])}]
              ELSE req[r]]

\* the Devbox field of a traced step that handles no Devbox
NoDevbox == [unique_id |-> None, namespace |-> None, name |-> "none"]

Untraced == [ev |-> "untraced", devbox |-> NoDevbox, n |-> 0, e2e |-> 0]

Traced == w_last # Untraced

\* the Devbox and the pod of the end-to-end scenario
E2EDevbox ==
    [unique_id |-> Some(<<"x">>), namespace |-> Some("ns1"), name |-> "devbox1"]
E2EPod == [unique_id |-> None, namespace |-> Some("ns1"), name |-> "devbox1"]

\* How far the steps traced so far, ending with this one, spell the
\* scenario Init, Apply(x in ns1), InitDone, pod address, Delete(x):
\* 1 after Init, ..., 5 after the Delete, 0 when they do not.
E2EPhase(ev, devbox) ==
    CASE ev = "Init" -> 1
      [] ev = "Apply" /\ w_last.e2e = 1 /\ devbox = E2EDevbox -> 2
      [] ev = "InitDone" /\ w_last.e2e = 2 -> 3
      [] ev = "PodUpdate" /\ w_last.e2e = 3 /\ devbox = E2EPod -> 4
      [] ev = "Delete" /\ w_last.e2e = 4 /\ devbox.unique_id = Some(<<"x">>) -> 5
      [] OTHER -> 0

\* a step of the watcher task or of the address feed: event ev with Devbox
\* (or pod) devbox is recorded
Trace(ev, devbox) ==
    w_last' = IF Traced
              THEN [ev |-> ev, devbox |-> devbox, n |-> 1 - w_last.n,
                    e2e |-> E2EPhase(ev, devbox)]
              ELSE w_last

\* the step changes what the handled events call for to a
Calls(a) == w_abs' = IF Traced THEN a ELSE w_abs

\* the step is a failure (out = TRUE) or the start of an Init (out = FALSE)
Outage(out) == w_out' = IF Traced THEN out ELSE w_out

SyncUntraced ==
    /\ w_last = Untraced
    /\ w_abs = <<>>
    /\ w_out = FALSE

GateInit ==
    /\ pod_ips = {}
    /\ w_pc = "run"
    /\ w_stream = "empty"
    /\ w_clear = 0
    /\ req = [r \in Requests |-> NewRequest]
    /\ SyncUntraced

GateIdle ==
    /\ pod_ips = {}
    /\ w_pc = "off"
    /\ w_stream = "empty"
    /\ w_clear = 0
    /\ req = <<>>
    /\ SyncUntraced

\* the watcher task and the address feed alone, every step traced
SyncInit ==
    /\ pod_ips = {}
    /\ w_pc = "run"
    /\ w_stream = "empty"
    /\ w_clear = 0
    /\ req = <<>>
    /\ w_last = [ev |-> "none", devbox |-> NoDevbox, n |-> 0, e2e |-> 0]
    /\ w_abs = [i \in Ids |-> None]
    /\ w_out = FALSE

\* mutant: the response is written and the request goes on: Ok(false)
Respond_GoesOn(q, status) ==
    [q EXCEPT !.pc = "upstream", !.status = Some(status), !.ret = Some(FALSE)]

\* the response is written and the request ends: Ok(true)
Respond(q, status) ==
    [q EXCEPT !.pc = "responded", !.status = Some(status), !.ret = Some(TRUE)]

\* request_filter up to its first registry lookup: the Host header is
\* parsed (404 on failure) and get_devbox is called (404 when not found)
request_filter_begin(r, host) ==
    /\ req[r].pc = "new"
    /\ LET parsed == parse_host(host)
           q == [req[r] EXCEPT !.host = host, !.parsed = parsed]
       IN  IF parsed = None
           THEN req' = [req EXCEPT ![r] = Respond(q, 404)]
           ELSE LET info == get_devbox(inner, parsed[2][1])
                    seen == {resolve_backend(inner, pod_ips, parsed[2][1], parsed[2][2])}
                IN  IF info = None
                    THEN req' = [req EXCEPT ![r] =
                                   Respond([q EXCEPT !.backend = Some(NotFound)],
                                           response_status(NotFound)[2])]
                    ELSE req' = [req EXCEPT ![r] =
                                   [q EXCEPT !.pc = "lookup", !.info = info,
                                             !.seen = seen, !.quiet = TRUE]]
    /\ UNCHANGED <<pod_ips, w_pc, w_stream, w_clear, syncVars, mapVars, parseVars,
                   callerVars, resetVars>>

\* request_filter from its second lookup on: get_pod_ip, then 503, or the
\* context is set and the request goes on to the upstream: Ok(false)
request_filter_end(r) ==
    /\ req[r].pc = "lookup"
    /\ LET q == [req[r] EXCEPT !.seen = {}, !.quiet = FALSE]
           backend == resolve_pod_ip(pod_ips, q.info[2], q.parsed[2][2])
           status == response_status(backend)
       IN  IF status # None
           THEN req' = [req EXCEPT ![r] =
                          Respond([q EXCEPT !.backend = Some(backend)], status[2])]
           ELSE req' = [req EXCEPT ![r] =
                          [q EXCEPT !.pc = "upstream",
                                    !.backend = Some(backend),
                                    !.ctx = Some([backend_ip |-> backend[2],
                                                  backend_port |-> backend[3]]),
                                    !.ret = Some(FALSE)]]
    /\ UNCHANGED <<pod_ips, w_pc, w_stream, w_clear, syncVars, mapVars, parseVars,
                   callerVars, resetVars>>

\* upstream_peer: the peer is built from the context, which must be set
upstream_peer(r) ==
    /\ req[r].pc = "upstream"
    /\ req' = [req EXCEPT ![r] =
                 IF req[r].ctx = None
                 THEN [@ EXCEPT !.pc = "panicked"]
                 ELSE [@ EXCEPT !.pc = "forwarded",
                                !.peer = Some(<<req[r].ctx[2].backend_ip,
                                                req[r].ctx[2].backend_port>>)]]
    /\ UNCHANGED <<pod_ips, w_pc, w_stream, w_clear, syncVars, mapVars, parseVars,
                   callerVars, resetVars>>

\* the runtime-instance feed: a pod of (namespace, devbox_name) has an IP
pod_update(namespace, devbox_name, ip) ==
    /\ pod_ips' = update_pod_ip(pod_ips, namespace, devbox_name, ip)
    /\ Written(inner, pod_ips')
    /\ Trace("PodUpdate", [unique_id |-> None, namespace |-> Some(namespace),
                           name |-> devbox_name])
    /\ UNCHANGED <<w_pc, w_stream, w_clear, w_abs, w_out, mapVars, parseVars,
                   callerVars, resetVars>>

\* the runtime-instance feed reconnects and starts over: the addresses it
\* had recorded are dropped
pod_resync ==
    /\ pod_ips' = {}
    /\ Written(inner, pod_ips')
    /\ Trace("PodResync", NoDevbox)
    /\ UNCHANGED <<w_pc, w_stream, w_clear, w_abs, w_out, mapVars, parseVars,
                   callerVars, resetVars>>

\* metadata.namespace of a Devbox: missing, empty, or a namespace
DevboxNamespaces == {None, Some("")} \cup {Some(n) : n \in Namespaces}

\* the Devbox objects of watch events: unique_id() and metadata.namespace
\* may be missing
Devboxes ==
    [unique_id : {None} \cup {Some(i) : i \in Ids},
     namespace : DevboxNamespaces,
     name : Names]

\* main.rs's loop calls run(): create_client fails, run returns the Err,
\* and the loop sleeps 5 s
run_create_client_err ==
    /\ w_pc = "run"
    /\ w_pc' = "sleep"
    /\ Trace("ClientErr", NoDevbox)
    /\ Outage(TRUE)
    /\ UNCHANGED <<pod_ips, w_stream, w_clear, req, w_abs, mapVars, parseVars,
                   callerVars, resetVars>>

\* tokio::time::sleep(5 s) is over: the loop calls run() again
sleep_done ==
    /\ w_pc = "sleep"
    /\ w_pc' = "run"
    /\ Trace("Slept", NoDevbox)
    /\ UNCHANGED <<pod_ips, w_stream, w_clear, req, w_abs, w_out, mapVars,
                   parseVars, callerVars, resetVars>>

\* run(): the client is created and the watch stream is built
run_start ==
    /\ w_pc = "run"
    /\ w_pc' = "streaming"
    /\ w_stream' = "empty"
    /\ Trace("Start", NoDevbox)
    /\ UNCHANGED <<pod_ips, w_clear, req, w_abs, w_out, mapVars, parseVars,
                   callerVars, resetVars>>

Streaming == w_pc = "streaming" /\ w_clear = 0

\* mutant: registering a Devbox forgets the address held for its pod
handle_apply_ForgetsAddress(devbox) ==
    /\ Streaming
    /\ w_stream \in {"listing", "watching"}
    /\ inner' = IF devbox.unique_id = None \/ devbox.namespace = None
                THEN inner
                ELSE register_map(inner, devbox.unique_id[2],
                                  [namespace |-> devbox.namespace[2],
                                   devbox_name |-> devbox.name])
    /\ pod_ips' = IF devbox.unique_id = None \/ devbox.namespace = None
                  THEN pod_ips
                  ELSE pod_ips \ PodEntriesOf(pod_ips, devbox.namespace[2],
                                              devbox.name)
    /\ Written(inner', pod_ips')
    /\ Trace("Apply", devbox)
    /\ Calls(IF devbox.unique_id \in {None, Some(<<>>)}
                \/ devbox.namespace \in {None, Some("")}
             THEN w_abs
             ELSE [w_abs EXCEPT ![devbox.unique_id[2]] =
                     Some([namespace |-> devbox.namespace[2],
                           devbox_name |-> devbox.name])])
    /\ UNCHANGED <<shard_of, w_pc, w_stream, w_clear, w_out, parseVars,
                   callerVars, resetVars>>

\* handle_apply of Event::Apply or Event::InitApply
handle_apply(devbox) ==
    /\ Streaming
    /\ w_stream \in {"listing", "watching"}
    /\ inner' = IF devbox.unique_id = None \/ devbox.namespace = None
                THEN inner
                ELSE register_map(inner, devbox.unique_id[2],
                                  [namespace |-> devbox.namespace[2],
                                   devbox_name |-> devbox.name])
    /\ Written(inner', pod_ips)
    /\ Trace("Apply", devbox)
    /\ Calls(IF devbox.unique_id \in {None, Some(<<>>)}
                \/ devbox.namespace \in {None, Some("")}
             THEN w_abs
             ELSE [w_abs EXCEPT ![devbox.unique_id[2]] =
                     Some([namespace |-> devbox.namespace[2],
                           devbox_name |-> devbox.name])])
    /\ UNCHANGED <<pod_ips, shard_of, w_pc, w_stream, w_clear, w_out, parseVars,
                   callerVars, resetVars>>

\* handle_delete of Event::Delete
handle_delete(devbox) ==
    /\ Streaming
    /\ w_stream = "watching"
    /\ inner' = IF devbox.unique_id = None THEN inner
                ELSE unregister_map(inner, devbox.unique_id[2])
    /\ Written(inner', pod_ips)
    /\ Trace("Delete", devbox)
    /\ Calls(IF devbox.unique_id = None THEN w_abs
             ELSE [w_abs EXCEPT ![devbox.unique_id[2]] = None])
    /\ UNCHANGED <<pod_ips, shard_of, w_pc, w_stream, w_clear, w_out, parseVars,
                   callerVars, resetVars>>

\* mutant: clear() also drops the addresses
handle_init_ClearsAddresses ==
    /\ w_pc = "streaming"
    /\ w_clear > 0 \/ w_stream = "empty"
    /\ inner' = clear_shard(inner, w_clear)
    /\ pod_ips' = {}
    /\ w_clear' = IF w_clear = NumShards - 1 THEN 0 ELSE w_clear + 1
    /\ w_stream' = "listing"
    /\ Written(inner', pod_ips')
    /\ Trace(IF w_clear = NumShards - 1 THEN "Init" ELSE "InitStep", NoDevbox)
    /\ Calls([i \in Ids |-> None])
    /\ Outage(FALSE)
    /\ UNCHANGED <<shard_of, w_pc, parseVars, callerVars, resetVars>>

\* Event::Init: registry.clear(), one shard at a time
handle_init ==
    /\ w_pc = "streaming"
    /\ w_clear > 0 \/ w_stream = "empty"
    /\ inner' = clear_shard(inner, w_clear)
    /\ w_clear' = IF w_clear = NumShards - 1 THEN 0 ELSE w_clear + 1
    /\ w_stream' = "listing"
    /\ Written(inner', pod_ips)
    /\ Trace(IF w_clear = NumShards - 1 THEN "Init" ELSE "InitStep", NoDevbox)
    /\ Calls([i \in Ids |-> None])
    /\ Outage(FALSE)
    /\ UNCHANGED <<pod_ips, shard_of, w_pc, parseVars, callerVars, resetVars>>

\* Event::InitDone: the count is logged
handle_init_done ==
    /\ Streaming
    /\ w_stream = "listing"
    /\ w_stream' = "watching"
    /\ Trace("InitDone", NoDevbox)
    /\ UNCHANGED <<pod_ips, w_pc, w_clear, req, w_abs, w_out, mapVars, parseVars,
                   callerVars, resetVars>>

\* Err(e): the error is logged and run() goes on polling the stream, which
\* retries the watch or lists again
handle_err ==
    /\ Streaming
    /\ w_stream' \in {w_stream, "empty"}
    /\ Trace("Err", NoDevbox)
    /\ Outage(TRUE)
    /\ UNCHANGED <<pod_ips, w_pc, w_clear, req, w_abs, mapVars, parseVars,
                   callerVars, resetVars>>

\* stream.next() is None: run() returns Ok(()) and the loop calls it again
stream_end ==
    /\ Streaming
    /\ w_pc' = "run"
    /\ w_stream' = "empty"
    /\ Trace("End", NoDevbox)
    /\ Outage(TRUE)
    /\ UNCHANGED <<pod_ips, w_clear, req, w_abs, mapVars, parseVars, callerVars,
                   resetVars>>

Next ==
    \/ \E r \in Requests, h \in RequestHosts : request_filter_begin(r, h)
    \/ \E r \in Requests : request_filter_end(r)
    \/ \E r \in Requests : upstream_peer(r)
    \/ \E e \in PodEvents : pod_update(e[1], e[2], e[3])
    \/ pod_resync
    \/ run_create_client_err
    \/ sleep_done
    \/ run_start
    \/ \E d \in Devboxes : handle_apply(d)
    \/ \E d \in Devboxes : handle_delete(d)
    \/ handle_init
    \/ handle_init_done
    \/ handle_err
    \/ stream_end

SyncNext ==
    \/ \E e \in PodEvents : pod_update(e[1], e[2], e[3])
    \/ pod_resync
    \/ run_create_client_err
    \/ sleep_done
    \/ run_start
    \/ \E d \in Devboxes : handle_apply(d)
    \/ \E d \in Devboxes : handle_delete(d)
    \/ handle_init
    \/ handle_init_done
    \/ handle_err
    \/ stream_end

-----------------------------------------------------------------------------
(* The specifications.                                                     *)

ParseIdle ==
    /\ p_host = <<>>
    /\ p_kind = "raw"
    /\ p_id = <<>>
    /\ p_port = 0
    /\ p_pc = "parsed"
    /\ p_result = None

MapIdle ==
    /\ inner = {}
    /\ shard_of = <<>>

\* no watcher and an empty registry; the requests have not started
ParseGateInit ==
    /\ pod_ips = {}
    /\ w_pc = "off"
    /\ w_stream = "empty"
    /\ w_clear = 0
    /\ req = [r \in Requests |-> NewRequest]
    /\ SyncUntraced

ParseInit ==
    /\ p_pc = "input"
    /\ p_result = None
    /\ \/ /\ p_kind = "built"
          /\ p_id \in ValidIds
          /\ p_port \in PortSamples
          /\ \E d \in Domains, sfx \in ClientSuffixes :
                p_host = BuildHost(p_id, p_port, d, sfx)
       \/ /\ p_kind = "numeral"
          /\ p_id \in ValidIds
          /\ p_port = 0
          /\ \E n \in PortNumerals, d \in Domains, sfx \in ClientSuffixes :
                p_host = BuildHostNumeral(p_id, n, d, sfx)
       \/ /\ p_kind = "raw"
          /\ p_id = <<>>
          /\ p_port = 0
          /\ p_host \in StringsUpTo(RawAlphabet, MaxRawLen)
    /\ MapIdle
    /\ CallerIdle
    /\ ResetIdle
    /\ ParseGateInit

\* one call of DevboxProxy::parse_host
ParseHost ==
    /\ p_pc = "input"
    /\ p_result' = parse_host(p_host)
    /\ p_pc' = "parsed"
    /\ UNCHANGED <<p_host, p_kind, p_id, p_port, mapVars, callerVars, resetVars,
                   gateVars>>

\* a request whose Host header is the parsed value enters request_filter
ParseRequest ==
    /\ p_pc = "parsed"
    /\ \E r \in Requests : request_filter_begin(r, p_host)

ParseNext == ParseHost \/ ParseRequest

SpecParse == ParseInit /\ [][ParseNext]_vars

RegistryInit == ParseIdle /\ MapInit /\ CallerInit /\ ResetIdle /\ GateIdle

SpecRegistry == RegistryInit /\ [][RegistryNext]_vars

ResetRaceInit == ParseIdle /\ MapInit /\ CallerIdle /\ ResetInit /\ GateIdle

SpecReset == ResetRaceInit /\ [][ResetNext]_vars

Init == ParseIdle /\ MapInit /\ CallerIdle /\ ResetIdle /\ GateInit

Spec == Init /\ [][Next]_vars

SyncRunInit == ParseIdle /\ MapInit /\ CallerIdle /\ ResetIdle /\ SyncInit

SpecSync == SyncRunInit /\ [][SyncNext]_vars

\* tokio's timer fires: a sleep that has begun ends
SpecSyncFair == SpecSync /\ WF_vars(sleep_done)

-----------------------------------------------------------------------------
(* Properties of host parsing (SpecParse).                                 *)

\* C10: for every identifier id of the grammar [a-z0-9]([-a-z0-9]*[a-z0-9])?
\* (digit-run segments included) and every port p in 0..65535, parsing
\* id-p.<any domain> returns exactly (id, p), with or without a ':' client
\* port suffix after the domain.
C10_ParseRoundTrip ==
    (p_pc = "parsed" /\ p_kind = "built") => p_result = Some(<<p_id, p_port>>)

\* an identifier made of digit runs, the largest port, a client port suffix
C10_Witness ==
    /\ p_pc = "parsed"
    /\ p_kind = "built"
    /\ p_id = <<"1", "-", "1">>
    /\ p_port = U16Max
    /\ \E k \in 1..Len(p_host) : p_host[k] = ":"
    /\ p_result = Some(<<p_id, p_port>>)

\* the position of the first dot of s, 0 when s has none
FirstDot(s) ==
    IF \A k \in 1..Len(s) : s[k] # "." THEN 0
    ELSE CHOOSE k \in 1..Len(s) : s[k] = "." /\ \A j \in 1..(k - 1) : s[j] # "."

\* where the run of digits that ends right before position d begins
\* (d when no digit stands right before d)
DigitRunStart(s, d) ==
    CHOOSE k \in 1..d :
        /\ \A j \in k..(d - 1) : s[j] \in AsciiDigits
        /\ k > 1 => s[k - 1] \notin AsciiDigits

\* the Host header values the claim names
NoDot(s) == FirstDot(s) = 0
NoDigitsBeforeDot(s) ==
    FirstDot(s) > 0 /\ (FirstDot(s) = 1 \/ s[FirstDot(s) - 1] \notin AsciiDigits)
StartsWithHyphen(s) == s # <<>> /\ s[1] = "-"
DoubleHyphenBeforePort(s) ==
    /\ FirstDot(s) > 0
    /\ LET k == DigitRunStart(s, FirstDot(s))
       IN  k >= 3 /\ s[k - 1] = "-" /\ s[k - 2] = "-"

\* C11: host parsing fails for the empty string, for a string with no dot,
\* for a string with no digit right before its first dot, for an identifier
\* that starts with a hyphen and for one that ends with a hyphen (a double
\* hyphen before the port digits).
C11_ParseRejects ==
    (/\ p_pc = "parsed"
     /\ \/ p_host = <<>>
        \/ NoDot(p_host)
        \/ NoDigitsBeforeDot(p_host)
        \/ StartsWithHyphen(p_host)
        \/ DoubleHyphenBeforePort(p_host))
        => p_result = None

\* "a--1." has been parsed: the identifier would end with a hyphen
C11_Witness ==
    /\ p_pc = "parsed"
    /\ p_host = <<"a", "-", "-", "1", ".">>
    /\ DoubleHyphenBeforePort(p_host)
    /\ ~NoDigitsBeforeDot(p_host)
    /\ ~StartsWithHyphen(p_host)
    /\ p_result = None

-----------------------------------------------------------------------------
(* Properties of the request path (Spec).                                  *)

\* request_filter has returned
Finished(q) == q.pc \in {"responded", "upstream", "forwarded"}

IsOk(backend) == backend # None /\ backend[2][1] = "Ok"

\* the three outcomes of request routing
Forwards(q) == q.ret = Some(FALSE) /\ q.status = None
Answers(q, code) == q.ret = Some(TRUE) /\ q.status = Some(code)

\* C1: request routing produces exactly one outcome: a forwarding
\* instruction (address, port) iff host parsing succeeds and resolution
\* returns Resolved; a 404 iff host parsing fails or resolution returns
\* NotFound; a 503 iff resolution returns NotReady.
C1_OneOutcome ==
    \A r \in Requests :
        LET q == req[r]
        IN  Finished(q) =>
              /\ Cardinality({o \in {"forward", "404", "503"} :
                     \/ o = "forward" /\ Forwards(q)
                     \/ o = "404" /\ Answers(q, 404)
                     \/ o = "503" /\ Answers(q, 503)}) = 1
              /\ Forwards(q) <=> (q.parsed # None /\ IsOk(q.backend))
              /\ Forwards(q) =>
                    q.ctx = Some([backend_ip |-> q.backend[2][2],
                                  backend_port |-> q.backend[2][3]])
              /\ ~Forwards(q) => q.ctx = None
              /\ Answers(q, 404) <=> (q.parsed = None \/ q.backend = Some(NotFound))
              /\ Answers(q, 503) <=> (q.backend = Some(NotRunning))

\* a request whose Host header carries a client port has been handed to the
\* upstream with the pod's address and the port of its subdomain
C1_Witness ==
    \E r \in Requests :
        /\ req[r].pc = "forwarded"
        /\ \E k \in 1..Len(req[r].host) : req[r].host[k] = ":"
        /\ req[r].peer = Some(<<"10.0.0.5", 8081>>)

\* request r's call of resolve_backend returns in this step
Resolves(r) ==
    /\ req[r].pc \in {"new", "lookup"}
    /\ req'[r].pc \in {"responded", "upstream"}
    /\ req'[r].backend # None

\* ... and nothing wrote to the registry while it ran
ResolvesAlone(r) ==
    /\ Resolves(r)
    /\ req[r].pc = "lookup" => req[r].quiet

\* C2: in any registry state, resolve(id, p) returns NotFound when no record
\* exists for id, NotReady when a record exists but no address is known for
\* its placement scope and name, and Resolved(A, p) when a record exists and
\* its address is A, p being the requested port.
C2_ResolveContract ==
    [][\A r \in Requests :
          ResolvesAlone(r) =>
            LET id == req'[r].parsed[2][1]
                p == req'[r].parsed[2][2]
                b == req'[r].backend[2]
                recs == {e.value : e \in EntriesOf(inner, id)}
                ips == {e.value : e \in
                          {pe \in pod_ips : \E v \in recs :
                              pe.key = <<v.namespace, v.devbox_name>>}}
            IN  /\ b = NotFound <=> recs = {}
                /\ b = NotRunning <=> (recs # {} /\ ips = {})
                /\ \A a \in Addrs : a \in ips => b = Ok(a, p)
                /\ b \in {NotFound, NotRunning} \cup {Ok(a, p) : a \in ips}]_vars

\* the second identifier resolved to the address of its pod, which the
\* registry still holds
C2_Witness ==
    \E r \in Requests :
        /\ req[r].backend = Some(Ok("10.0.0.6", 8082))
        /\ resolve_backend(inner, pod_ips, <<"y", "-", "1">>, 8082)
              = Ok("10.0.0.6", 8082)

\* C3: each request is resolved against a single registry snapshot: under
\* any interleaving with the sync process's writes, the outcome of
\* resolve(id, p) is the outcome resolve gives on one registry state that
\* existed between the start and the end of the call.
C3_SingleSnapshot ==
    [][\A r \in Requests :
          (Resolves(r) /\ req[r].pc = "lookup") =>
              req'[r].backend[2] \in req[r].seen]_vars

-----------------------------------------------------------------------------
(* Properties of the registry (SpecRegistry).  A step of a call is told by *)
(* tick changing; last' says which call it was.                            *)

Stepped(op) == tick' # tick /\ last'.op = op

\* C4: upsert(id, L) returns true exactly when id was absent immediately
\* before the call and false when it replaced a record; a lookup(id) that
\* follows returns L; the registry never holds more than one record for an
\* identifier.
C4_UpsertContract ==
    [][Stepped("register") =>
          /\ last'.ret = Some(EntriesOf(inner, last'.id) = {})
          /\ get(inner', last'.id) = last'.info
          /\ \A i \in Ids : Cardinality(EntriesOf(inner', i)) <= 1]_vars

\* a register that replaced a record, with the other identifiers present
C4_Witness ==
    /\ last.op = "register"
    /\ last.ret = Some(FALSE)
    /\ len(inner) = Cardinality(Ids)
    /\ get(inner, last.id) = last.info

\* C5: remove(id) returns true exactly when a record for id was present
\* immediately before the call; afterwards lookup(id) is absent, a second
\* remove(id) returns false, and the records of all other identifiers are
\* unchanged.
C5_RemoveContract ==
    [][Stepped("unregister") =>
          /\ last'.ret = Some(EntriesOf(inner, last'.id) # {})
          /\ get(inner', last'.id) = None
          /\ (last.op = "unregister" /\ last.id = last'.id)
                => last'.ret = Some(FALSE)
          /\ \A i \in Ids \ {last'.id} : EntriesOf(inner', i) = EntriesOf(inner, i)]_vars

\* a remove that found its record and left another identifier's record
C5_Witness ==
    /\ last.op = "unregister"
    /\ last.ret = Some(TRUE)
    /\ inner # {}

\* the identifiers registered while caller t's clear() ran
RacedIds(t) == c_ups[t]

\* C6: after reset() the registry is empty (size 0) and lookup returns absent
\* for every identifier present before the reset, until a new upsert for that
\* identifier occurs.  (An upsert that completes while the reset runs is such
\* a new upsert.)
C6_ResetEmpties ==
    [][/\ Stepped("clear") =>
             /\ \A i \in Ids \ RacedIds(last'.by) : get(inner', i) = None
             /\ RacedIds(last'.by) = {} => (len(inner') = 0 /\ is_empty(inner'))
       /\ \A i \in Ids :
             (get(inner, i) = None /\ get(inner', i) # None)
                => (Stepped("register") /\ last'.id = i)]_vars

\* a clear() has returned, its last step removed records, nothing is left
C6_Witness ==
    /\ last.op = "clear"
    /\ last.removed > 0
    /\ inner = {}

\* C7: N callers upsert N distinct identifiers concurrently: every one of the
\* identifiers is then returned by lookup with the record its caller wrote,
\* and size is N.  Stated for every identifier whose latest register has not
\* been followed by a remove or a reset of it: no update is lost.
C7_NoLostUpdate ==
    /\ \A i \in Ids : abs[i] # None => get(inner, i) = Some(abs[i][2].info)
    /\ len(inner) = Cardinality({i \in Ids : abs[i] # None})

\* every caller has written an identifier of its own, and all are present
C7_Witness ==
    /\ \A t \in Threads : \E i \in Ids : abs[i] # None /\ abs[i][2].by = t
    /\ len(inner) = NumThreads
    /\ \A t \in Threads : Idle(t)

\* C8: while writers upsert other identifiers, a lookup of an identifier that
\* is present and is neither removed nor reset returns its complete record,
\* never absence or a partial record.
C8_ReaderSeesRecord ==
    [][/\ (Stepped("get") /\ abs[last'.id] # None) =>
             /\ last'.ret = Some(abs[last'.id][2].info)
             /\ last'.ret[2] \in DevboxInfos
       /\ Stepped("register") =>
             \A i \in Ids \ {last'.id} : get(inner', i) = get(inner, i)]_vars

\* a reader found the record one caller wrote while another caller's record
\* for another identifier is in the map
C8_Witness ==
    /\ last.op = "get"
    /\ last.ret # None
    /\ \E i \in Ids \ {last.id} :
          /\ abs[i] # None
          /\ abs[last.id] # None
          /\ abs[i][2].by # abs[last.id][2].by
          /\ abs[i][2].by # last.by

-----------------------------------------------------------------------------
(* Properties of a reset raced by registers (SpecReset).  The registers    *)
(* are one caller's, so their order is the order of that caller's program. *)

RECURSIVE ApplyRegs(_, _)
\* map m after the registers of sequence rs, in order
ApplyRegs(m, rs) ==
    IF rs = <<>> THEN m
    ELSE ApplyRegs(register_map(m, rs[1][1], rs[1][2]), Tail(rs))

\* the maps a reset at one single point among the upserts rs can leave
ResetAtOnePoint(rs) ==
    {ApplyRegs({}, SubSeq(rs, k + 1, Len(rs))) : k \in 0..Len(rs)}

\* C9: reset() is atomic with respect to concurrent upserts: when upserts
\* race a reset, the map the reset returns on is what the reset at one
\* single point among those upserts leaves, so each racing upsert is either
\* wholly lost or wholly present with its exact record.
C9_ResetAtomic ==
    [][(r_pos = NumShards - 1 /\ r_pos' = 0) =>
          inner' \in ResetAtOnePoint(r_regs)]_vars

-----------------------------------------------------------------------------
(* Properties of the watcher task (SpecSync).  w_last' says which step a   *)
(* step was; its field n changes at every traced step.                     *)

\* the ports asked for in the end-to-end scenario
E2EPorts == {80, 8080}

SyncStepped(ev) == w_last'.n # w_last.n /\ w_last'.ev = ev

\* C13: when the stream delivers a StreamError while the sync process is
\* Streaming, the sync process leaves Streaming (and the outer loop
\* reconnects); it does not go on consuming events from the same stream.
C13_ErrorEndsSession ==
    [][SyncStepped("Err") => w_pc' # "streaming"]_vars

\* C14: the sync process never stops for good: the loop never exits, and
\* after a session ends abnormally (the cluster client cannot be built, the
\* connection fails, or the stream is exhausted) the loop calls run() again
\* in the end, however many failures there have been.
C14_RestartsForever ==
    /\ [](w_pc \in {"run", "streaming", "sleep"})
    /\ [][SyncStepped("End") => w_pc' = "run"]_vars
    /\ (w_pc = "sleep") ~> (w_pc = "run")
    /\ (w_last.ev = "Err") ~> (w_pc = "run")

\* the Devbox lacks an identifier or a placement scope (missing or empty)
LacksIdOrScope(devbox) ==
    \/ devbox.unique_id \in {None, Some(<<>>)}
    \/ devbox.namespace \in {None, Some("")}

\* C15: an Upsert whose object lacks an identifier or a placement scope
\* (missing or empty) is discarded: the registry is left unchanged and the
\* stream goes on.
C15_MalformedDiscarded ==
    [][(SyncStepped("Apply") /\ LacksIdOrScope(w_last'.devbox)) =>
          /\ inner' = inner
          /\ w_pc' = "streaming"
          /\ w_stream' = w_stream]_vars

\* C16: from a watch transport failure or stream termination until the Init
\* of the next session the registry is unchanged.
C16_OutageKeepsRegistry ==
    [][w_out' => inner' = inner]_vars

\* C17: after any finite event sequence the registry holds exactly the
\* identifiers with a valid Upsert after the most recent Init and no later
\* Delete, each with the record of its most recent Upsert.
C17_LastWriteWins ==
    (Traced /\ w_clear = 0) => \A i \in Ids : get(inner, i) = w_abs[i]

\* C18: between the end of a session attempt and the start of the next a
\* backoff delay always occurs: run() is called again only out of the sleep.
C18_BackoffBetweenAttempts ==
    [][(w_pc # "run" /\ w_pc' = "run") => w_pc = "sleep"]_vars

\* C19: handling InitDone, a Delete for an identifier the registry does not
\* hold, or a Delete whose object has no identifier leaves the registry as
\* it was and does not end the stream.
C19_NoOpEvents ==
    [][(\/ SyncStepped("InitDone")
        \/ /\ SyncStepped("Delete")
           /\ \/ w_last'.devbox.unique_id = None
              \/ get(inner, w_last'.devbox.unique_id[2]) = None) =>
          /\ inner' = inner
          /\ w_pc' = "streaming"
          /\ w_stream' = "watching"]_vars

\* a Delete with no identifier has been handled with records in the registry
C19_Witness ==
    /\ w_last.ev = "Delete"
    /\ w_last.devbox.unique_id = None
    /\ inner # {}
    /\ w_pc = "streaming"

AddrOf(namespace, devbox_name) ==
    (CHOOSE e \in PodEvents : e[1] = namespace /\ e[2] = devbox_name)[3]

\* devbox is a valid Upsert's object and pod is the pod it names
PodOf(devbox, pod) ==
    /\ devbox.unique_id # None
    /\ pod.unique_id = None
    /\ devbox.namespace = pod.namespace
    /\ devbox.namespace \in {Some(n) : n \in Namespaces}
    /\ devbox.name = pod.name

\* the step ends with the registry that results from (m, pods) by the Upsert
\* of devbox and the address update of its pod, and with devbox's
\* identifier resolving to that address
BothApplied(m, pods, devbox) ==
    LET namespace == devbox.namespace[2]
        A == AddrOf(namespace, devbox.name)
    IN  /\ inner' = register_map(m, devbox.unique_id[2],
                                 [namespace |-> namespace,
                                  devbox_name |-> devbox.name])
        /\ pod_ips' = update_pod_ip(pods, namespace, devbox.name, A)
        /\ \A p \in E2EPorts :
              resolve_backend(inner', pod_ips', devbox.unique_id[2], p) = Ok(A, p)

-----------------------------------------------------------------------------
(* Further properties of request routing (Spec).                           *)

\* C22: upstream_peer never runs without a routing context: a request goes
\* on to the upstream (request_filter returns false) only with the resolved
\* address and port stored in its context, every request answered 404 or
\* 503 has ended there, and the expect of upstream_peer never fails.
C22_ContextBeforeUpstream ==
    \A r \in Requests :
        LET q == req[r]
        IN  /\ q.pc # "panicked"
            /\ (q.ret = Some(FALSE) \/ q.pc \in {"upstream", "forwarded"}) =>
                  /\ q.ret = Some(FALSE)
                  /\ q.status = None
                  /\ IsOk(q.backend)
                  /\ q.ctx = Some([backend_ip |-> q.backend[2][2],
                                   backend_port |-> q.parsed[2][2]])
            /\ q.status # None =>
                  /\ q.status \in {Some(404), Some(503)}
                  /\ q.pc = "responded"
                  /\ q.ret = Some(TRUE)
                  /\ q.peer = None
            /\ q.pc = "forwarded" =>
                  q.peer = Some(<<q.ctx[2].backend_ip, q.ctx[2].backend_port>>)

\* upstream_peer has built the peer of a request from its context
C22_Witness ==
    \E r \in Requests :
        /\ req[r].pc = "forwarded"
        /\ req[r].ctx = Some([backend_ip |-> "10.0.0.6", backend_port |-> 8082])
        /\ req[r].peer = Some(<<"10.0.0.6", 8082>>)

-----------------------------------------------------------------------------
(* Further properties of host parsing (SpecParse).                         *)

\* the value of the decimal numeral that stands right before the first dot
\* of s (0 when there is none)
PortWritten(s) ==
    IF FirstDot(s) = 0 THEN 0
    ELSE DecValue(SubSeq(s, DigitRunStart(s, FirstDot(s)), FirstDot(s) - 1))

\* C23: a host whose port digit run denotes a value above 65535 is a parse
\* failure, answered with 404; the port is never wrapped or truncated to 16
\* bits: every port that parsing returns is the decimal value written in
\* the host.
C23_PortNeverWraps ==
    /\ p_pc = "parsed" =>
          /\ PortWritten(p_host) > U16Max => p_result = None
          /\ p_result # None =>
                /\ p_result[2][2] = PortWritten(p_host)
                /\ p_result[2][2] \in 0..U16Max
    /\ \A r \in DOMAIN req :
          (req[r].pc # "new" /\ PortWritten(p_host) > U16Max) =>
              /\ req[r].parsed = None
              /\ Answers(req[r], 404)
              /\ req[r].ctx = None

\* a host that asks for port 65536 + 80 has been answered 404
C23_Witness ==
    /\ p_pc = "parsed"
    /\ p_kind = "numeral"
    /\ PortWritten(p_host) = 65616
    /\ p_result = None
    /\ \E r \in DOMAIN req : req[r].host = p_host /\ Answers(req[r], 404)

=============================================================================
